---------------------------- MODULE Spec2Model ----------------------------
(* Ranking core of the furniture recommendation engine: reciprocal rank    *)
(* fusion of a text and an image channel followed by the maximal-marginal- *)
(* relevance pass, as implemented by VectorStore in tests/test_retrieval.py *)
(* (the implementation the test suite exercises).                          *)
(*                                                                         *)
(* Products are identified by their uniq_id, a positive integer here.      *)
(* Scores are the exact rationals the code computes in floating point,     *)
(* scaled by Scale = lcm(1..MaxRank): 1.0/(i+1) is Scale \div (i+1). For   *)
(* ranks below 8 the float sums compare exactly as the rationals do.       *)
(*                                                                         *)
(* Further specifications over the same variables: SpecSearch is           *)
(* retrieval.VectorStore.search, SpecCache is cache.QueryCache, SpecServer *)
(* is the application of main.py (lifespan and the request handlers).      *)
EXTENDS Integers, Sequences, FiniteSets, TLC

\* the ranking pipeline of tests/test_retrieval.py
VARIABLES text_candidates, image_candidates, k, combined_scores, fused,
          mmr_k, lambda_param, diverse_results, raised, pc

\* the server: retrieval.VectorStore, main.services and the last request served
VARIABLES faiss_metadata, services, request, response, search_invoked, last_op

\* cache.QueryCache, the last operation on it and the keys in order of last use
VARIABLES cache, cache_op, cache_result, cache_error, recency

\* the application of main.py: the position of lifespan, each service object's
\* initialized flag, the products CSV on disk, analytics' demo_mode and
\* products_cache, and what the last request asked for, met and was answered
\* (request, response, descriptions, health and summary are those of the last
\* request handled: a handler blanks the answers of the other endpoints)
VARIABLES startup, initialized, products_csv, demo_mode, products_cache,
          include_description, faults, descriptions, health, summary

ranking_vars == <<text_candidates, image_candidates, k, combined_scores, fused,
                  mmr_k, lambda_param, diverse_results, raised, pc>>

search_vars == <<faiss_metadata, services, request, response, search_invoked, last_op>>

cache_vars == <<cache, cache_op, cache_result, cache_error, recency>>

server_vars == <<startup, initialized, products_csv, demo_mode, products_cache,
                 include_description, faults, descriptions, health, summary>>

vars == <<ranking_vars, search_vars, cache_vars, server_vars>>

-----------------------------------------------------------------------------
(* Bounds of the model *)

MaxId == 3

MaxLen == 3

MaxK == 3

MaxProducts == 2

MaxQuery == 1

MaxPage == 4

MaxSize == 2

MaxKey == 3

MaxValue == 2

MaxRequests == 2

-----------------------------------------------------------------------------
(* Generic helpers *)

Min(a, b) == IF a < b THEN a ELSE b

Max(a, b) == IF a > b THEN a ELSE b

Range(s) == {s[i] : i \in DOMAIN s}

NoDup(s) == \A i, j \in DOMAIN s : i # j => s[i] # s[j]

RECURSIVE Gcd(_, _)
Gcd(a, b) == IF b = 0 THEN a ELSE Gcd(b, a % b)

RECURSIVE LcmUpTo(_)
LcmUpTo(n) == IF n <= 1 THEN 1 ELSE (LcmUpTo(n - 1) * n) \div Gcd(LcmUpTo(n - 1), n)

-----------------------------------------------------------------------------
(* The synthetic corpus *)

\* test_mmr_diversity_properties: products A,B are chairs, C,D tables, E,F sofas
categories(id) == (id + 1) \div 2

\* the end-to-end channels: text [A,B,C,D,E], image [C,D,F,G,H], k = 8
E2EText == <<1, 2, 3, 4, 5>>

E2EImage == <<3, 4, 6, 7, 8>>

E2EK == Cardinality(Range(E2EText) \cup Range(E2EImage))

Ids == 1 .. MaxId

\* a channel's output: best match first, no identifier twice
RankedLists == {s \in UNION {[1 .. n -> Ids] : n \in 0 .. MaxLen} : NoDup(s)}

MaxRank == Max(MaxLen, Len(E2EText))

Scale == LcmUpTo(MaxRank)

-----------------------------------------------------------------------------
(* _reciprocal_rank_fusion *)

\* score = 1.0 / (i + 1) for the 0-indexed rank i; pos = i + 1
reciprocal_rank(pos) == Scale \div pos

\* for i, candidate in enumerate(cands): scores[candidate.uniq_id] = score
\* (a later occurrence of an id overwrites an earlier one)
rank_scores(cands) ==
    [id \in Range(cands) |->
        reciprocal_rank(CHOOSE i \in DOMAIN cands :
            /\ cands[i] = id
            /\ \A j \in DOMAIN cands : cands[j] = id => j <= i)]

\* an insertion-ordered dict: its keys in insertion order and its values
EmptyDict == [order |-> <<>>, scores |-> <<>>]

DictSet_mutant(d, key, value) ==
    [order  |-> Append(d.order, key),
     scores |-> (key :> value) @@ d.scores]

DictSet(d, key, value) ==
    [order  |-> IF key \in Range(d.order) THEN d.order ELSE Append(d.order, key),
     scores |-> (key :> value) @@ d.scores]

\* for candidate in text_candidates: combined_scores[id] = text_scores[id]
RECURSIVE add_text_scores(_, _, _)
add_text_scores(d, cands, text_scores) ==
    IF cands = <<>> THEN d
    ELSE add_text_scores(DictSet(d, Head(cands), text_scores[Head(cands)]),
                         Tail(cands), text_scores)

image_score_overwrite(d, id, image_scores) == image_scores[id]

\* combined_scores[id] += image_scores[id] when the id is already present
image_score(d, id, image_scores) ==
    IF id \in Range(d.order) THEN d.scores[id] + image_scores[id]
    ELSE image_scores[id]

\* for candidate in image_candidates: add or set the image score
RECURSIVE add_image_scores(_, _, _)
add_image_scores(d, cands, image_scores) ==
    IF cands = <<>> THEN d
    ELSE add_image_scores(DictSet(d, Head(cands), image_score(d, Head(cands), image_scores)),
                          Tail(cands), image_scores)

combine_scores(text, image) ==
    add_image_scores(add_text_scores(EmptyDict, text, rank_scores(text)),
                     image, rank_scores(image))

insert_sorted_ascending(sorted, id, scores) ==
    LET before == {i \in DOMAIN sorted : scores[sorted[i]] <= scores[id]}
        n == Cardinality(before)
    IN SubSeq(sorted, 1, n) \o <<id>> \o SubSeq(sorted, n + 1, Len(sorted))

insert_sorted_unstable(sorted, id, scores) ==
    LET before == {i \in DOMAIN sorted : scores[sorted[i]] > scores[id]}
        n == Cardinality(before)
    IN SubSeq(sorted, 1, n) \o <<id>> \o SubSeq(sorted, n + 1, Len(sorted))

\* place id behind every entry whose score is at least its own (stable)
insert_sorted(sorted, id, scores) ==
    LET before == {i \in DOMAIN sorted : scores[sorted[i]] >= scores[id]}
        n == Cardinality(before)
    IN SubSeq(sorted, 1, n) \o <<id>> \o SubSeq(sorted, n + 1, Len(sorted))

\* sorted(combined_scores.items(), key=lambda x: x[1], reverse=True):
\* descending by score, entries of equal score keep their dict order
RECURSIVE sort_by_score(_, _, _)
sort_by_score(sorted, order, scores) ==
    IF order = <<>> THEN sorted
    ELSE sort_by_score(insert_sorted(sorted, Head(order), scores), Tail(order), scores)

top_k_one_more(s, n) == SubSeq(s, 1, Min(n + 1, Len(s)))

top_k_one_less(s, n) == SubSeq(s, 1, Min(n - 1, Len(s)))

\* sorted_candidates[:k]
top_k(s, n) == SubSeq(s, 1, Min(n, Len(s)))

reciprocal_rank_fusion(text, image, limit) ==
    LET d == combine_scores(text, image)
    IN top_k(sort_by_score(<<>>, d.order, d.scores), limit)


-----------------------------------------------------------------------------
(* _maximal_marginal_relevance *)

\* lambda_param in tenths: 0.0, 0.7 (the default) and 1.0
Lambdas == {0, 7, 10}

mmr_score_rewards_depth(pos, nselected, lam) ==
    10 * lam * (Scale - reciprocal_rank(pos)) - (10 - lam) * (10 - nselected) * Scale

\* mmr_score = lambda_param * relevance - (1 - lambda_param) * diversity with
\* relevance = 1.0 / (idx + 1) and diversity = 1.0 - len(selected) * 0.1,
\* times 100 * Scale; pos = idx + 1. The diversity term is the same for every
\* candidate of one round, so float rounding cannot reorder two candidates.
mmr_score(pos, nselected, lam) ==
    10 * lam * reciprocal_rank(pos) - (10 - lam) * (10 - nselected) * Scale

RECURSIVE best_remaining_last_tie(_, _, _, _)
best_remaining_last_tie(remaining, best, nselected, lam) ==
    IF remaining = <<>> THEN best
    ELSE LET idx == Head(remaining)
             better == \/ best = 0
                       \/ mmr_score(idx, nselected, lam) >= mmr_score(best, nselected, lam)
         IN best_remaining_last_tie(Tail(remaining), IF better THEN idx ELSE best,
                                    nselected, lam)

\* for idx in remaining: if mmr_score > best_score: best_idx = idx
\* (best = 0 stands for best_idx = None, best_score = -inf)
RECURSIVE best_remaining(_, _, _, _)
best_remaining(remaining, best, nselected, lam) ==
    IF remaining = <<>> THEN best
    ELSE LET idx == Head(remaining)
             better == \/ best = 0
                       \/ mmr_score(idx, nselected, lam) > mmr_score(best, nselected, lam)
         IN best_remaining(Tail(remaining), IF better THEN idx ELSE best, nselected, lam)

list_remove_nothing(s, x) == s

\* remaining.remove(best_idx)
list_remove(s, x) == SelectSeq(s, LAMBDA e : e # x)

\* while len(selected) < k and remaining: pick the best, move it to selected
RECURSIVE mmr_select(_, _, _, _)
mmr_select(selected, remaining, limit, lam) ==
    IF Len(selected) < limit /\ remaining # <<>>
    THEN LET best == best_remaining(remaining, 0, Len(selected), lam)
         IN mmr_select(Append(selected, best), list_remove(remaining, best), limit, lam)
    ELSE selected

no_trim_needed_strict(candidates, limit) == Len(candidates) < limit

\* if len(candidates) <= k: return candidates
no_trim_needed(candidates, limit) == Len(candidates) <= limit

\* The whole function. selected.append(0); remaining.remove(0) raises
\* ValueError when remaining = list(range(0)) has no 0.
maximal_marginal_relevance(candidates, limit, lam) ==
    IF no_trim_needed(candidates, limit)
    THEN [raised |-> FALSE, value |-> candidates]
    ELSE IF candidates = <<>>
    THEN [raised |-> TRUE, value |-> <<>>]
    ELSE LET remaining == [i \in 1 .. Len(candidates) - 1 |-> i + 1]
             selected == mmr_select(<<1>>, remaining, limit, lam)
         IN [raised |-> FALSE,
             value  |-> [i \in 1 .. Len(selected) |-> candidates[selected[i]]]]

-----------------------------------------------------------------------------
(* The pipeline: channels -> fuse -> diversify *)

RankingInit ==
    /\ \/ /\ text_candidates \in RankedLists
          /\ image_candidates \in RankedLists
          /\ k \in 0 .. MaxK
       \/ /\ text_candidates = E2EText
          /\ image_candidates = E2EImage
          /\ k = E2EK
    /\ combined_scores = <<>>
    /\ fused = <<>>
    /\ mmr_k = 0
    /\ lambda_param = 0
    /\ diverse_results = <<>>
    /\ raised = FALSE
    /\ pc = "start"

\* fused = vector_store._reciprocal_rank_fusion(text_candidates, image_candidates, k)
Fuse ==
    /\ pc = "start"
    /\ combined_scores' = combine_scores(text_candidates, image_candidates).scores
    /\ fused' = reciprocal_rank_fusion(text_candidates, image_candidates, k)
    /\ pc' = "fused"
    /\ UNCHANGED <<text_candidates, image_candidates, k, mmr_k, lambda_param,
                   diverse_results, raised>>
    /\ UNCHANGED <<search_vars, cache_vars, server_vars>>

\* diverse_results = vector_store._maximal_marginal_relevance(fused, query, k, lambda_param)
Diversify ==
    /\ pc = "fused"
    /\ \E limit \in 0 .. MaxK, lam \in Lambdas :
          LET r == maximal_marginal_relevance(fused, limit, lam)
          IN /\ mmr_k' = limit
             /\ lambda_param' = lam
             /\ diverse_results' = r.value
             /\ raised' = r.raised
    /\ pc' = "diversified"
    /\ UNCHANGED <<text_candidates, image_candidates, k, combined_scores, fused>>
    /\ UNCHANGED <<search_vars, cache_vars, server_vars>>

Next == Fuse \/ Diversify

-----------------------------------------------------------------------------
(* retrieval.VectorStore.search and main.recommend_furniture *)

\* APIConstants.DEFAULT_PAGE_SIZE, the default of search(size=8)
DEFAULT_PAGE_SIZE == 8

\* APIConstants.MAX_PAGE_SIZE, the le=20 of RecommendRequest.size
MAX_PAGE_SIZE == 20

\* A query is a case-folded string: 0 is the empty string "", 1..MaxQuery are
\* words. A product is its uniq_id and the set of words occurring in its title,
\* brand, categories or description.
EmptyQuery == 0

Queries == 0 .. MaxQuery

Catalogs ==
    {[i \in DOMAIN f |-> [uniq_id |-> i, words |-> f[i]]] :
        f \in UNION {[1 .. n -> SUBSET (1 .. MaxQuery)] : n \in 0 .. MaxProducts}}

\* 25 products that all match query 1, served in pages of 8
ExampleCatalog == [i \in 1 .. 3 * DEFAULT_PAGE_SIZE + 1 |-> [uniq_id |-> i, words |-> {1}]]

\* query_lower in product.title.lower() or ... ("" is in every string)
matches(product, query) == query = EmptyQuery \/ query \in product.words

no_match_fallback_empty(filtered, catalog) == filtered

\* if not filtered_products: filtered_products = self.faiss_metadata
no_match_fallback(filtered, catalog) == IF filtered = <<>> THEN catalog ELSE filtered

\* a slice bound of Python: negative counts from the end, both clamp to 0..n
py_index(i, n) == IF i < 0 THEN Max(i + n, 0) ELSE Min(i, n)

py_slice_from_one(s, start, end) ==
    LET a == py_index(start + 1, Len(s))
        b == py_index(end + 1, Len(s))
    IN IF a < b THEN SubSeq(s, a + 1, b) ELSE <<>>

\* s[start:end]
py_slice(s, start, end) ==
    LET a == py_index(start, Len(s))
        b == py_index(end, Len(s))
    IN IF a < b THEN SubSeq(s, a + 1, b) ELSE <<>>

page_count_floor(found, size) == found \div size

\* total_pages = (len(filtered_products) + size - 1) // size
page_count(found, size) == (found + size - 1) \div size

\* VectorStore.search
search(catalog, query, page, size) ==
    LET filtered_products ==
            no_match_fallback(SelectSeq(catalog, LAMBDA p : matches(p, query)), catalog)
        start_idx == (page - 1) * size
        end_idx == start_idx + size
    IN [status            |-> 200,
        products          |-> py_slice(filtered_products, start_idx, end_idx),
        total_found       |-> Len(filtered_products),
        total_pages       |-> page_count(Len(filtered_products), size),
        reasons           |-> <<[found |-> Len(filtered_products), query |-> query]>>,
        filtered_products |-> filtered_products]

\* a response that carries no result
ErrorResponse(status) ==
    [status |-> status, products |-> <<>>, total_found |-> 0, total_pages |-> 0,
     reasons |-> <<>>, filtered_products |-> <<>>]

NoRequest == [query |-> EmptyQuery, page |-> 0, size |-> 0]

validate_request_no_page(req) ==
    /\ req.query # EmptyQuery
    /\ req.size >= 1 /\ req.size <= MAX_PAGE_SIZE

\* RecommendRequest: query min_length=1, page ge=1, size ge=1 le=20
validate_request(req) ==
    /\ req.query # EmptyQuery
    /\ req.page >= 1
    /\ req.size >= 1 /\ req.size <= MAX_PAGE_SIZE

SearchIdle ==
    /\ faiss_metadata = <<>>
    /\ services = {}
    /\ request = NoRequest
    /\ response = ErrorResponse(0)
    /\ search_invoked = FALSE
    /\ last_op = "none"

\* the state after startup: the catalog is loaded and the store registered
SearchInit ==
    /\ faiss_metadata \in Catalogs \cup {ExampleCatalog}
    /\ services = {"vector_store"}
    /\ request = NoRequest
    /\ response = ErrorResponse(0)
    /\ search_invoked = FALSE
    /\ last_op = "none"

DirectRequests ==
    [query : Queries, page : (0 - MaxPage) .. MaxPage, size : 1 .. MaxSize \cup {DEFAULT_PAGE_SIZE}]

HttpRequests ==
    [query : Queries, page : 0 .. MaxPage,
     size : 0 .. MaxSize \cup {DEFAULT_PAGE_SIZE, MAX_PAGE_SIZE, MAX_PAGE_SIZE + 1}]

\* await vector_store.search(query, k, page, size, filters, user_image_url)
Search ==
    /\ \E req \in DirectRequests :
          /\ request' = req
          /\ response' = search(faiss_metadata, req.query, req.page, req.size)
    /\ search_invoked' = TRUE
    /\ last_op' = "search"
    /\ UNCHANGED <<faiss_metadata, services>>
    /\ UNCHANGED <<ranking_vars, cache_vars, server_vars>>

RankingIdle ==
    /\ text_candidates = <<>>
    /\ image_candidates = <<>>
    /\ k = 0
    /\ combined_scores = <<>>
    /\ fused = <<>>
    /\ mmr_k = 0
    /\ lambda_param = 0
    /\ diverse_results = <<>>
    /\ raised = FALSE
    /\ pc = "start"

SearchNext == Search

-----------------------------------------------------------------------------
(* cache.QueryCache *)

CacheKeys == 1 .. MaxKey

CacheValues == 1 .. MaxValue

\* the in-flight requests that share the global query_cache
Requests == 1 .. MaxRequests

\* the None of Python; no cached value is None
None == 0

cache_get_first(c, key) == IF c = <<>> THEN None ELSE c[CHOOSE x \in DOMAIN c : TRUE]

\* return self.cache.get(key)
cache_get(c, key) == IF key \in DOMAIN c THEN c[key] ELSE None

cache_set_only(c, key, value) == key :> value

\* self.cache[key] = value
cache_set(c, key, value) == (key :> value) @@ c

\* the keys in order of last use, the least recently used first
touch(order, key) == Append(SelectSeq(order, LAMBDA x : x # key), key)

NoOp == [op |-> "none", key |-> None, value |-> None, by |-> None]

\* self.cache = {}
CacheInit ==
    /\ cache = <<>>
    /\ cache_op = NoOp
    /\ cache_result = None
    /\ cache_error = "none"
    /\ recency = <<>>

\* query_cache.set(key, value), called by one of the requests
CacheSet ==
    /\ \E key \in CacheKeys, value \in CacheValues, r \in Requests :
          /\ cache' = cache_set(cache, key, value)
          /\ cache_op' = [op |-> "set", key |-> key, value |-> value, by |-> r]
          /\ recency' = touch(recency, key)
    /\ cache_result' = None
    /\ cache_error' = "none"
    /\ UNCHANGED <<ranking_vars, search_vars, server_vars>>

\* query_cache.get(key), called by one of the requests
CacheGet ==
    /\ \E key \in CacheKeys, r \in Requests :
          /\ cache_result' = cache_get(cache, key)
          /\ cache_op' = [op |-> "get", key |-> key, value |-> None, by |-> r]
          /\ recency' = IF key \in DOMAIN cache THEN touch(recency, key) ELSE recency
    /\ cache_error' = "none"
    /\ UNCHANGED cache
    /\ UNCHANGED <<ranking_vars, search_vars, server_vars>>

\* query_cache.clear(): QueryCache defines __init__, get and set only, so the
\* call raises AttributeError and the dict stays as it is
CacheClear ==
    /\ \E r \in Requests :
          cache_op' = [op |-> "clear", key |-> None, value |-> None, by |-> r]
    /\ cache_result' = None
    /\ cache_error' = "AttributeError"
    /\ UNCHANGED <<cache, recency>>
    /\ UNCHANGED <<ranking_vars, search_vars, server_vars>>

CacheNext == CacheSet \/ CacheGet \/ CacheClear

-----------------------------------------------------------------------------
(* main.py: lifespan, /health, /api/recommend and the analytics endpoints *)

\* the keys of main.services
ServiceNames == {"vector_store", "genai", "cv_classifier", "analytics"}

\* settings.data_dir / settings.products_csv: the file is missing or unreadable
NoCsv == [exists |-> FALSE, rows |-> <<>>]

\* ... or holds n valid rows, n = 0 included; every row matches every word
CsvFiles ==
    {NoCsv} \cup
    {[exists |-> TRUE,
      rows   |-> [i \in 1 .. n |-> [uniq_id |-> i, words |-> 1 .. MaxQuery]]] :
        n \in 0 .. MaxProducts}

\* VectorStore._load_demo_products: "Modern Office Chair" and "Wooden Dining
\* Table"; word 1 is one that occurs in the first product only
DemoProducts == <<[uniq_id |-> 1, words |-> {1}], [uniq_id |-> 2, words |-> {}]>>

\* Analytics.products_cache: None, or the data frame of the valid rows
NoData == [loaded |-> FALSE, rows |-> <<>>]

\* what can go wrong while a recommend request is served: the awaited search
\* raises, generate_description raises for the products in genai_failing
NoFaults == [search_raises |-> FALSE, genai_failing |-> {}]

\* the faults a request can meet once its search is awaited: the search raises,
\* or it returns and some of the page's descriptions (if any are asked for) fail
Faults(products, described) ==
    {[search_raises |-> TRUE, genai_failing |-> {}]} \cup
    {[search_raises |-> FALSE, genai_failing |-> S] :
        S \in IF described THEN SUBSET {products[i].uniq_id : i \in DOMAIN products}
              ELSE {{}}}

NoHealth == [status |-> "none", services |-> [n \in {} |-> ""]]

NoSummary == [status |-> 0, demo_mode |-> FALSE, total_products |-> 0]

\* the "" appended for a description that could not be generated
EmptyDescription == 0

\* GenerativeAI.generate_description: the text built from the product's title,
\* brand and description, identified here by the product it describes
generate_description(product) == product.uniq_id

describe_skip_failed(products, failing) ==
    LET ok == SelectSeq(products, LAMBDA p : p.uniq_id \notin failing)
    IN [i \in DOMAIN ok |-> generate_description(ok[i])]

\* for product in results.products: try: descriptions.append(desc)
\*                                  except Exception: descriptions.append("")
describe(products, failing) ==
    [i \in DOMAIN products |->
        IF products[i].uniq_id \in failing THEN EmptyDescription
        ELSE generate_description(products[i])]

registered_on_raise(svcs, name, raises) == svcs \cup {name}

\* await x.initialize(); services[name] = x : skipped when initialize raises
registered(svcs, name, raises) == IF raises THEN svcs ELSE svcs \cup {name}

\* the four status lines of health_check and its except branch:
\* services.get(name, {}).initialized raises AttributeError for a missing name
health_check(svcs, init) ==
    IF ServiceNames \subseteq svcs
    THEN LET status(n) == IF init[n] THEN "healthy" ELSE "unhealthy"
             report == [vector_store    |-> status("vector_store"),
                        generative_ai   |-> status("genai"),
                        computer_vision |-> status("cv_classifier"),
                        analytics       |-> status("analytics")]
         IN [status   |-> IF \A n \in ServiceNames : init[n] THEN "healthy" ELSE "degraded",
             services |-> report]
    ELSE [status |-> "unhealthy", services |-> [n \in {} |-> ""]]

\* Analytics.get_summary, as answered by get_analytics_summary: the fixed demo
\* summary, or the statistics of products_cache; df['price'] raises TypeError
\* when df is None and KeyError when the frame has no rows and so no columns
get_summary(demo, data) ==
    IF demo
    THEN [status |-> 200, demo_mode |-> TRUE, total_products |-> 215]
    ELSE IF ~data.loaded \/ data.rows = <<>>
    THEN [status |-> 500, demo_mode |-> FALSE, total_products |-> 0]
    ELSE [status |-> 200, demo_mode |-> FALSE, total_products |-> Len(data.rows)]

\* the server variables while another part of the program is looked at
ServerIdle ==
    /\ startup = "idle"
    /\ initialized = [n \in ServiceNames |-> FALSE]
    /\ products_csv = NoCsv
    /\ demo_mode = TRUE
    /\ products_cache = NoData
    /\ include_description = FALSE
    /\ faults = NoFaults
    /\ descriptions = <<>>
    /\ health = NoHealth
    /\ summary = NoSummary

\* The module is imported: every service object is constructed, services is
\* empty. Either the server runs lifespan before it serves, or the app is
\* served without its lifespan (uvicorn --lifespan off, a TestClient that is
\* not used as a context manager).
ServerInit ==
    /\ startup \in {"vector_store", "serving"}
    /\ initialized = [n \in ServiceNames |-> FALSE]
    /\ products_csv \in CsvFiles
    /\ demo_mode = TRUE
    /\ products_cache = NoData
    /\ include_description = FALSE
    /\ faults = NoFaults
    /\ descriptions = <<>>
    /\ health = NoHealth
    /\ summary = NoSummary

\* await vector_store.initialize(); services["vector_store"] = vector_store
\* initialize loads the CSV or falls back to the demo products; its prints of
\* emoji raise UnicodeEncodeError on a console that cannot encode them, the
\* one in the except branch unguarded
LifespanVectorStore ==
    /\ startup = "vector_store"
    /\ \E raises \in BOOLEAN :
          /\ faiss_metadata' = IF products_csv.exists THEN products_csv.rows
                               ELSE IF raises THEN faiss_metadata ELSE DemoProducts
          /\ initialized' = [initialized EXCEPT !["vector_store"] = ~raises]
          /\ services' = registered(services, "vector_store", raises)
          /\ startup' = IF raises THEN "aborted" ELSE "genai"
    /\ UNCHANGED <<request, response, search_invoked, last_op>>
    /\ UNCHANGED <<products_csv, demo_mode, products_cache, include_description,
                   faults, descriptions, health, summary>>
    /\ UNCHANGED <<ranking_vars, cache_vars>>

\* await genai.initialize(); services["genai"] = genai
LifespanGenAI ==
    /\ startup = "genai"
    /\ initialized' = [initialized EXCEPT !["genai"] = TRUE]
    /\ services' = registered(services, "genai", FALSE)
    /\ startup' = "cv_classifier"
    /\ UNCHANGED <<faiss_metadata, request, response, search_invoked, last_op>>
    /\ UNCHANGED <<products_csv, demo_mode, products_cache, include_description,
                   faults, descriptions, health, summary>>
    /\ UNCHANGED <<ranking_vars, cache_vars>>

\* await cv_classifier.initialize(); services["cv_classifier"] = cv_classifier
LifespanCV ==
    /\ startup = "cv_classifier"
    /\ initialized' = [initialized EXCEPT !["cv_classifier"] = TRUE]
    /\ services' = registered(services, "cv_classifier", FALSE)
    /\ startup' = "analytics"
    /\ UNCHANGED <<faiss_metadata, request, response, search_invoked, last_op>>
    /\ UNCHANGED <<products_csv, demo_mode, products_cache, include_description,
                   faults, descriptions, health, summary>>
    /\ UNCHANGED <<ranking_vars, cache_vars>>

\* await analytics.initialize(); services["analytics"] = analytics; yield
\* initialize loads the valid rows and leaves demo mode, or stays in demo mode;
\* its prints can raise as those of the vector store
LifespanAnalytics ==
    /\ startup = "analytics"
    /\ \E raises \in BOOLEAN :
          /\ initialized' = [initialized EXCEPT !["analytics"] = ~raises]
          /\ services' = registered(services, "analytics", raises)
          /\ startup' = IF raises THEN "aborted" ELSE "serving"
    /\ products_cache' = IF products_csv.exists
                         THEN [loaded |-> TRUE, rows |-> products_csv.rows]
                         ELSE products_cache
    /\ demo_mode' = ~products_csv.exists
    /\ UNCHANGED <<faiss_metadata, request, response, search_invoked, last_op>>
    /\ UNCHANGED <<products_csv, include_description, faults, descriptions, health, summary>>
    /\ UNCHANGED <<ranking_vars, cache_vars>>

\* GET /health
HealthCheck ==
    /\ startup = "serving"
    /\ health' = health_check(services, initialized)
    /\ last_op' = "health"
    /\ request' = NoRequest
    /\ response' = ErrorResponse(0)
    /\ search_invoked' = FALSE
    /\ include_description' = FALSE
    /\ faults' = NoFaults
    /\ descriptions' = <<>>
    /\ summary' = NoSummary
    /\ UNCHANGED <<faiss_metadata, services>>
    /\ UNCHANGED <<startup, initialized, products_csv, demo_mode, products_cache>>
    /\ UNCHANGED <<ranking_vars, cache_vars>>

\* POST /api/recommend. The body is validated against RecommendRequest before
\* the handler runs (422). In the handler every exception ends in
\* HTTPException(500): the AttributeError of {}.initialized for a service that
\* is not registered, the HTTPException(503) raised two lines earlier, and
\* whatever the search raises. query_cache is imported and never used.
Recommend ==
    /\ startup = "serving"
    /\ \E req \in HttpRequests, include \in BOOLEAN :
          /\ request' = req
          /\ include_description' = include
          /\ IF ~validate_request(req)
             THEN /\ response' = ErrorResponse(422)
                  /\ search_invoked' = FALSE
                  /\ faults' = NoFaults
                  /\ descriptions' = <<>>
             ELSE IF "vector_store" \notin services \/ ~initialized["vector_store"]
             THEN /\ response' = ErrorResponse(500)
                  /\ search_invoked' = FALSE
                  /\ faults' = NoFaults
                  /\ descriptions' = <<>>
             ELSE LET results == search(faiss_metadata, req.query, req.page, req.size)
                      described == include /\ "genai" \in services /\ initialized["genai"]
                  IN \E met \in Faults(results.products, described) :
                        /\ faults' = met
                        /\ search_invoked' = TRUE
                        /\ IF met.search_raises \/ (include /\ "genai" \notin services)
                           THEN /\ response' = ErrorResponse(500)
                                /\ descriptions' = <<>>
                           ELSE /\ response' = results
                                /\ descriptions' = IF described
                                                   THEN describe(results.products, met.genai_failing)
                                                   ELSE <<>>
    /\ last_op' = "recommend"
    /\ health' = NoHealth
    /\ summary' = NoSummary
    /\ UNCHANGED <<faiss_metadata, services>>
    /\ UNCHANGED <<startup, initialized, products_csv, demo_mode, products_cache>>
    /\ UNCHANGED <<ranking_vars, cache_vars>>

\* GET /api/analytics/summary: as in recommend, the AttributeError and the 503
\* both end in HTTPException(500)
GetAnalyticsSummary ==
    /\ startup = "serving"
    /\ summary' = IF "analytics" \notin services \/ ~initialized["analytics"]
                  THEN [status |-> 500, demo_mode |-> FALSE, total_products |-> 0]
                  ELSE get_summary(demo_mode, products_cache)
    /\ last_op' = "summary"
    /\ request' = NoRequest
    /\ response' = ErrorResponse(0)
    /\ search_invoked' = FALSE
    /\ include_description' = FALSE
    /\ faults' = NoFaults
    /\ descriptions' = <<>>
    /\ health' = NoHealth
    /\ UNCHANGED <<faiss_metadata, services>>
    /\ UNCHANGED <<startup, initialized, products_csv, demo_mode, products_cache>>
    /\ UNCHANGED <<ranking_vars, cache_vars>>

\* POST /api/analytics/clear-cache: analytics.clear_cache() on the global object
ClearAnalyticsCache ==
    /\ startup = "serving"
    /\ products_cache' = NoData
    /\ last_op' = "clear_cache"
    /\ request' = NoRequest
    /\ response' = ErrorResponse(0)
    /\ search_invoked' = FALSE
    /\ include_description' = FALSE
    /\ faults' = NoFaults
    /\ descriptions' = <<>>
    /\ health' = NoHealth
    /\ summary' = NoSummary
    /\ UNCHANGED <<faiss_metadata, services>>
    /\ UNCHANGED <<startup, initialized, products_csv, demo_mode>>
    /\ UNCHANGED <<ranking_vars, cache_vars>>

ServerNext ==
    \/ LifespanVectorStore
    \/ LifespanGenAI
    \/ LifespanCV
    \/ LifespanAnalytics
    \/ HealthCheck
    \/ Recommend
    \/ GetAnalyticsSummary
    \/ ClearAnalyticsCache

InitServer == ServerInit /\ SearchIdle /\ RankingIdle /\ CacheInit

SpecServer == InitServer /\ [][ServerNext]_vars

InitCache == CacheInit /\ RankingIdle /\ SearchIdle /\ ServerIdle

SpecCache == InitCache /\ [][CacheNext]_vars

InitSearch == SearchInit /\ RankingIdle /\ CacheInit /\ ServerIdle

SpecSearch == InitSearch /\ [][SearchNext]_vars

Init == RankingInit /\ SearchIdle /\ CacheInit /\ ServerIdle

Spec == Init /\ [][Next]_vars

TypeOK ==
    /\ pc \in {"start", "fused", "diversified"}
    /\ k \in 0 .. Max(MaxK, E2EK)
    /\ mmr_k \in 0 .. MaxK
    /\ lambda_param \in Lambdas \cup {0}
    /\ raised \in BOOLEAN
    /\ Range(fused) \subseteq Range(text_candidates) \cup Range(image_candidates)
    /\ Range(diverse_results) \subseteq Range(fused)


-----------------------------------------------------------------------------
(* Vocabulary of the properties *)

Prefix(s, n) == SubSeq(s, 1, Min(n, Len(s)))

PosIn(s, id) == CHOOSE i \in DOMAIN s : s[i] = id

UniqueCandidates == Range(text_candidates) \cup Range(image_candidates)

InBoth == Range(text_candidates) \cap Range(image_candidates)

SingleChannelOnly == UniqueCandidates \ InBoth

\* sum over the channels of 1/(r+1), scaled
ExpectedScore(id) ==
    (IF id \in Range(text_candidates) THEN Scale \div PosIn(text_candidates, id) ELSE 0)
  + (IF id \in Range(image_candidates) THEN Scale \div PosIn(image_candidates, id) ELSE 0)

NonIncreasing(s) ==
    \A i, j \in DOMAIN s : i < j => combined_scores[s[i]] >= combined_scores[s[j]]

\* channel of discovery (text 0, image 1) and rank in it, compared lexicographically
DiscoveredBefore(a, b) ==
    LET ch(x) == IF x \in Range(text_candidates) THEN 0 ELSE 1
        rk(x) == IF x \in Range(text_candidates) THEN PosIn(text_candidates, x)
                 ELSE PosIn(image_candidates, x)
    IN ch(a) < ch(b) \/ (ch(a) = ch(b) /\ rk(a) < rk(b))

Tied(s, i, j) == i < j /\ combined_scores[s[i]] = combined_scores[s[j]]

IsE2E == text_candidates = E2EText /\ image_candidates = E2EImage /\ k = E2EK

Above(s, a, b) == a \in Range(s) /\ b \in Range(s) /\ PosIn(s, a) < PosIn(s, b)

CategoriesOf(s) == {categories(s[i]) : i \in DOMAIN s}

\* a candidate as relevant as the best unselected one, but of another category
\* than the seed
SameRelevanceAlternative ==
    /\ Len(fused) >= 2
    /\ \E j \in DOMAIN fused :
          /\ j > 2
          /\ categories(fused[j]) # categories(fused[1])
          /\ combined_scores[fused[j]] = combined_scores[fused[2]]

-----------------------------------------------------------------------------
(* Properties *)

\* C1: for every pair of channel lists and every limit k >= 0 the fused list
\* has at most k entries.
C1_AtMostK == pc # "start" => Len(fused) <= k

C1_Witness ==
    pc = "fused" /\ k >= 1 /\ Len(fused) = k /\ Cardinality(UniqueCandidates) > k

\* C2: for channel lists without duplicate identifiers the fused list holds no
\* identifier twice, also when a candidate is in both channels.
C2_NoDuplicate ==
    (pc # "start" /\ NoDup(text_candidates) /\ NoDup(image_candidates)) => NoDup(fused)

C2_Witness ==
    pc = "fused" /\ Len(fused) >= 2 /\ \E id \in InBoth : id \in Range(fused)

\* C3: when one channel is empty the fused list is the other channel's list cut
\* to k in its own order; two empty channels give the empty list.
C3_EmptyChannel ==
    pc # "start" =>
        /\ text_candidates = <<>> => fused = Prefix(image_candidates, k)
        /\ image_candidates = <<>> => fused = Prefix(text_candidates, k)
        /\ (text_candidates = <<>> /\ image_candidates = <<>>) => fused = <<>>

C3_Witness ==
    /\ pc = "fused"
    /\ text_candidates = <<>>
    /\ k >= 2
    /\ Len(image_candidates) > k
    /\ fused = Prefix(image_candidates, k)

\* C4: two fused candidates of equal combined score stand in the order of the
\* earliest channel that discovered them (text before image), then of their
\* rank in that channel.
C4_TieBreak ==
    pc # "start" =>
        \A i, j \in DOMAIN fused :
            Tied(fused, i, j) => DiscoveredBefore(fused[i], fused[j])

C4_Witness ==
    /\ pc = "fused"
    /\ \E i, j \in DOMAIN fused :
          /\ Tied(fused, i, j)
          /\ fused[i] \in InBoth
          /\ fused[j] \in InBoth
          /\ PosIn(image_candidates, fused[j]) < PosIn(image_candidates, fused[i])

\* C5: a candidate's combined score is the sum over the channels of 1/(r+1) for
\* its 0-indexed rank r there, and the fused list is in non-increasing order of
\* combined score.
C5_ScoreAndOrder ==
    pc # "start" =>
        /\ DOMAIN combined_scores = UniqueCandidates
        /\ \A id \in UniqueCandidates : combined_scores[id] = ExpectedScore(id)
        /\ NonIncreasing(fused)

C5_Witness ==
    /\ pc = "fused"
    /\ Len(fused) >= 3
    /\ \E i \in DOMAIN fused :
          /\ i > 1
          /\ fused[i] \in InBoth
          /\ combined_scores[fused[i]] < combined_scores[fused[1]]

\* C6 as stated: with text [A,B,C,D,E], image [C,D,F,G,H] and k = 8, both C and
\* D rank above every candidate that is in one channel only.
C6_BothAboveSingles ==
    (pc # "start" /\ IsE2E) =>
        \A s \in SingleChannelOnly :
            /\ Above(fused, E2EImage[1], s)
            /\ Above(fused, E2EImage[2], s)

\* C6 amended: C ranks above every single-channel candidate; D ranks above every
\* single-channel candidate but A, and A (score 1) ranks above D (score 3/4).
C6_BothAboveSinglesButA ==
    (pc # "start" /\ IsE2E) =>
        /\ \A s \in SingleChannelOnly : Above(fused, E2EImage[1], s)
        /\ \A s \in SingleChannelOnly \ {E2EText[1]} : Above(fused, E2EImage[2], s)
        /\ Above(fused, E2EText[1], E2EImage[2])

C6_Witness ==
    /\ pc = "fused"
    /\ IsE2E
    /\ Len(fused) = E2EK
    /\ fused[1] = E2EImage[1]
    /\ fused[2] = E2EText[1]

\* C7: when k is at least the number of unique candidates the fused list holds
\* each of them exactly once, in sorted order; when k = 0 it is empty.
C7_AllUniqueOrNone ==
    pc # "start" =>
        /\ k >= Cardinality(UniqueCandidates) =>
              /\ Range(fused) = UniqueCandidates
              /\ Len(fused) = Cardinality(UniqueCandidates)
              /\ NonIncreasing(fused)
        /\ k = 0 => fused = <<>>

C7_Witness ==
    /\ pc = "fused"
    /\ k >= Cardinality(UniqueCandidates)
    /\ Cardinality(UniqueCandidates) >= 3
    /\ InBoth # {}
    /\ Len(fused) = Cardinality(UniqueCandidates)

\* C8: for every candidate list, every lambda and every k >= len(candidates)
\* diversify returns the list unchanged, in its order; so the empty list gives
\* the empty list and a single candidate gives that candidate.
C8_NoTrimIsIdentity ==
    (pc = "diversified" /\ mmr_k >= Len(fused)) =>
        /\ ~raised
        /\ diverse_results = fused

C8_Witness ==
    /\ pc = "diversified"
    /\ mmr_k >= Len(fused)
    /\ Len(fused) >= 2
    /\ lambda_param < 10
    /\ diverse_results = fused

\* C9: with lambda = 1.0 and any k, diversify returns exactly the first k
\* candidates of the fused list, in fused order.
C9_LambdaOneIsTopK ==
    (pc = "diversified" /\ lambda_param = 10) =>
        /\ ~raised
        /\ diverse_results = Prefix(fused, mmr_k)

\* C10: for candidates of at least 2 categories and k >= 2, diversify with
\* lambda < 1.0 returns candidates of at least 2 categories whenever a candidate
\* of the same relevance and of another category exists.
C10_DiverseCategories ==
    (/\ pc = "diversified"
     /\ lambda_param < 10
     /\ mmr_k >= 2
     /\ Cardinality(CategoriesOf(fused)) >= 2
     /\ SameRelevanceAlternative) =>
        Cardinality(CategoriesOf(diverse_results)) >= 2

\* C11: for every fused list, every k >= 1 and every lambda in [0,1] the
\* diversified list has exactly min(k, len) entries, whatever the lambda, holds
\* no identifier twice and holds only members of the fused list.
C11_DiversifiedShape ==
    (pc = "diversified" /\ mmr_k >= 1) =>
        /\ ~raised
        /\ Len(diverse_results) = Min(mmr_k, Len(fused))
        /\ NoDup(diverse_results)
        /\ Range(diverse_results) \subseteq Range(fused)

C11_Witness ==
    /\ pc = "diversified"
    /\ lambda_param = 0
    /\ mmr_k >= 2
    /\ Len(fused) > mmr_k
    /\ Len(diverse_results) = mmr_k

-----------------------------------------------------------------------------
(* Properties of search and recommend *)

\* the least p with p * size >= n
CeilDiv(n, size) == CHOOSE p \in 0 .. n : p * size >= n /\ (p = 0 \/ (p - 1) * size < n)

SearchDone == search_invoked /\ response.status = 200

InvalidRequest(req) ==
    req.page < 1 \/ req.size < 1 \/ req.size > MAX_PAGE_SIZE \/ req.query = EmptyQuery

NothingMatches ==
    \A i \in DOMAIN faiss_metadata : request.query \notin faiss_metadata[i].words

\* C12: for every result list and every size >= 1 pagination reports
\* total_found = len(list) and total_pages = ceil(total_found / size), 0 for an
\* empty list; 25 items in pages of 8 give 4 pages and page 4 holds 1 item.
C12_Totals ==
    SearchDone =>
        /\ response.total_found = Len(response.filtered_products)
        /\ response.total_pages = CeilDiv(response.total_found, request.size)
        /\ response.total_found = 0 => response.total_pages = 0
        /\ (/\ faiss_metadata = ExampleCatalog
            /\ request.size = DEFAULT_PAGE_SIZE /\ request.page = 4) =>
               /\ response.total_pages = 4
               /\ Len(response.products) = 1

C12_Witness ==
    /\ SearchDone
    /\ faiss_metadata = ExampleCatalog
    /\ request.size = DEFAULT_PAGE_SIZE
    /\ request.page = 4
    /\ response.total_found = Len(ExampleCatalog)
    /\ response.total_pages = 4

\* C13: the page slice is list[(page-1)*size : page*size], and every page above
\* total_pages or below 1, 0 and negative pages included, gives an empty slice.
C13_PageSlice ==
    SearchDone =>
        LET list == response.filtered_products
            first == (request.page - 1) * request.size + 1
            last == Min(request.page * request.size, Len(list))
        IN IF request.page >= 1 /\ request.page <= response.total_pages
           THEN response.products = SubSeq(list, first, last)
           ELSE response.products = <<>>

\* C19: a recommend request with page < 1, size outside 1..20 or an empty query
\* is answered with a validation error before the pipeline runs: the search is
\* not invoked for it and the catalog and the services stay as they are.
C19_RejectedBeforePipeline ==
    [][(last_op' = "recommend" /\ InvalidRequest(request')) =>
          /\ response'.status = 422
          /\ ~search_invoked'
          /\ UNCHANGED <<faiss_metadata, services>>]_vars

C19_Witness ==
    /\ last_op = "recommend"
    /\ request.query # EmptyQuery
    /\ request.page = 0
    /\ request.size = 1
    /\ response.status = 422
    /\ ~search_invoked

\* C20: when no product matches the query the result is empty and valid:
\* no products, total_found = 0, total_pages = 0 and a reason saying that
\* nothing was found.
C20_NoMatchIsEmpty ==
    (SearchDone /\ NothingMatches /\ request.query # EmptyQuery) =>
        /\ response.products = <<>>
        /\ response.total_found = 0
        /\ response.total_pages = 0
        /\ \E i \in DOMAIN response.reasons : response.reasons[i].found = 0

-----------------------------------------------------------------------------
(* Properties of the query cache *)

\* the capacity N of the cache contract: fewer entries than there are keys
CacheCapacity == MaxKey - 1

Lookup(c, key) == IF key \in DOMAIN c THEN c[key] ELSE None

\* the step stores value under key and leaves every other key as it was
SetEffect(key, value) ==
    /\ Lookup(cache', key) = value
    /\ \A other \in CacheKeys \ {key} : Lookup(cache', other) = Lookup(cache, other)

\* the step returns the entry of key and leaves the cache as it was
GetEffect(key) ==
    /\ cache_result' = Lookup(cache, key)
    /\ cache' = cache

\* C14: set(k, v) followed by get(k), with no set(k, _) in between, returns v;
\* get of a key never set returns no value; set on one key leaves the values of
\* all other keys unchanged.
C14_SetThenGet ==
    /\ [](\A key \in CacheKeys :
            (cache_op.op = "get" /\ cache_op.key = key /\ key \notin Range(recency))
                => cache_result = None)
    /\ [][/\ cache_op'.op = "set" => SetEffect(cache_op'.key, cache_op'.value)
          /\ cache_op'.op = "get" => GetEffect(cache_op'.key)]_vars

C14_Witness ==
    /\ cache_op.op = "get"
    /\ cache_op.by = 2
    /\ cache_result = 2
    /\ Cardinality(DOMAIN cache) >= 2
    /\ recency[1] # cache_op.key
    /\ cache[recency[1]] = 1

\* C15: after any sequence of get and set operations the cache holds at most N
\* entries: a set of a new key at capacity evicts one entry before inserting.
C15_Bounded == Cardinality(DOMAIN cache) <= CacheCapacity

\* C16: the entry evicted is the least recently used one, a get hit counting as
\* a use: a set of a new key into a full cache removes the key used longest ago
\* and keeps every other key.
C16_EvictsLeastRecentlyUsed ==
    [][(/\ cache_op'.op = "set"
        /\ cache_op'.key \notin DOMAIN cache
        /\ Cardinality(DOMAIN cache) = CacheCapacity) =>
          /\ Head(recency) \notin DOMAIN cache'
          /\ \A other \in DOMAIN cache \ {Head(recency)} : other \in DOMAIN cache']_vars

\* C17: the cache offers clear(), which removes all entries: after clear() no
\* key has a value, whatever was set before.
C17_ClearRemovesAll ==
    cache_op.op = "clear" => (cache_error = "none" /\ DOMAIN cache = {})

\* C18: under every interleaving of get, set and clear of several requests each
\* operation takes effect as one step of the sequential cache - set stores, get
\* returns the entry, clear empties - and no operation fails.
C18_Linearizable ==
    [][/\ cache_error' = "none"
       /\ cache_op'.op = "set" => SetEffect(cache_op'.key, cache_op'.value)
       /\ cache_op'.op = "get" => GetEffect(cache_op'.key)
       /\ cache_op'.op = "clear" => DOMAIN cache' = {}]_vars

-----------------------------------------------------------------------------
(* The greedy selection of _maximal_marginal_relevance *)

\* the call had to trim: 1 <= k < len(candidates)
Trimmed == pc = "diversified" /\ ~raised /\ mmr_k >= 1 /\ mmr_k < Len(fused)

\* the original (fused) rank of each selected candidate, in selection order
SelectedRanks ==
    [j \in DOMAIN diverse_results |->
        CHOOSE i \in DOMAIN fused : fused[i] = diverse_results[j]]

\* C23: when k < len(candidates) the first selected item is the candidate of
\* original index 0, each later pick is an unselected candidate whose
\* mmr_score = lambda * relevance - (1 - lambda) * penalty is maximal at that
\* step, and a tie in mmr_score goes to the lowest original rank.
C23_GreedyRule ==
    Trimmed =>
        /\ diverse_results # <<>>
        /\ SelectedRanks[1] = 1
        /\ \A j \in 2 .. Len(diverse_results) :
              LET pick == SelectedRanks[j]
                  unselected == DOMAIN fused \ {SelectedRanks[i] : i \in 1 .. j - 1}
                  score(i) == mmr_score(i, j - 1, lambda_param)
              IN /\ pick \in unselected
                 /\ \A i \in unselected :
                       /\ score(pick) >= score(i)
                       /\ score(pick) = score(i) => pick <= i

\* lambda = 0 makes every score of a round equal: two picks were decided by the tie rule
C23_Witness ==
    /\ Trimmed
    /\ lambda_param = 0
    /\ Len(diverse_results) = 2
    /\ Len(fused) = 3

-----------------------------------------------------------------------------
(* The pages of VectorStore.search *)

\* the products of page p of the last search, by another call of search
PageOf(p) == search(faiss_metadata, request.query, p, request.size).products

\* pages 1..n one after the other
RECURSIVE ConcatPages(_)
ConcatPages(n) == IF n = 0 THEN <<>> ELSE ConcatPages(n - 1) \o PageOf(n)

\* C28: for size >= 1 and page >= 1 the pages 1..total_pages partition the
\* matched list: each has between 1 and size items, only the last may have
\* fewer than size, pages beyond total_pages are empty, and pages
\* 1..total_pages concatenated in order are the matched list, every item once.
C28_PagesPartition ==
    (SearchDone /\ request.page >= 1 /\ request.size >= 1) =>
        LET n == response.total_pages
            matched == response.filtered_products
            first == (request.page - 1) * request.size + 1
            last == Min(request.page * request.size, Len(matched))
        IN /\ response.products = SubSeq(matched, first, last)
           /\ request.page > n => response.products = <<>>
           /\ \A p \in 1 .. n :
                 /\ Len(PageOf(p)) >= 1
                 /\ Len(PageOf(p)) <= request.size
                 /\ p < n => Len(PageOf(p)) = request.size
           /\ \A p \in n + 1 .. n + MaxPage : PageOf(p) = <<>>
           /\ ConcatPages(n) = matched
           /\ \A i, j \in DOMAIN matched : matched[i].uniq_id = matched[j].uniq_id => i = j

\* 25 products in pages of 2: 13 pages, the last of them holds 1 product
C28_Witness ==
    /\ SearchDone
    /\ last_op = "search"
    /\ request.size = 2
    /\ request.page = 4
    /\ response.total_pages = 13
    /\ Len(response.products) = 2
    /\ Len(PageOf(13)) = 1

-----------------------------------------------------------------------------
(* Properties of the application: lifespan, /health, /api/recommend, analytics *)

\* the vector store is missing from services or not initialized
StoreUnavailable == "vector_store" \notin services \/ ~initialized["vector_store"]

\* lifespan ran to its yield
StartupCompleted == startup = "serving" /\ services = ServiceNames

\* the cache key of a recommend request (filters are not modelled)
RequestKey(req) == <<req.query, req.page, req.size>>

\* C21: a channel query that fails is treated as an empty ranked list; the
\* recommend request still completes with a well-formed, possibly empty,
\* result and is never failed by that channel.
C21_FailedChannelIsEmptyList ==
    (last_op = "recommend" /\ ~InvalidRequest(request) /\ ~StoreUnavailable
        /\ faults.search_raises)
        => (response.status = 200 /\ response.products = <<>>)

\* C22: the status string health reports for the vector store tells live from
\* fallback operation: after startup it is "healthy" for the store that loaded
\* the real catalog and something else for the store that fell back to the
\* demo products.
C22_HealthTellsLiveFromFallback ==
    (last_op = "health" /\ StartupCompleted)
        => ((health.services.vector_store = "healthy") <=> products_csv.exists)

\* C24: after a completed recommend request for key (query, filters, page,
\* size) the Query Cache holds that key, so that a later request with the same
\* key is answered from the entry.
C24_RecommendFillsCache ==
    (last_op = "recommend" /\ response.status = 200)
        => RequestKey(request) \in DOMAIN cache

\* C25: when the vector store is not registered as initialized, POST
\* /api/recommend answers with HTTP status 503 and does not invoke the search.
C25_UnavailableStoreIs503 ==
    (last_op = "recommend" /\ ~InvalidRequest(request) /\ StoreUnavailable)
        => (response.status = 503 /\ ~search_invoked)

\* the summary succeeds on the data as loaded at startup
SummaryWorksAsLoaded == demo_mode \/ products_csv.rows # <<>>

\* C26: after startup a summary request issued after clear-cache still succeeds
\* and returns a summary, in demo mode and in real-data mode. (products_cache
\* is None after a clear, and in real-data mode only after a clear.)
C26_SummaryAfterClear ==
    [][("analytics" \in services /\ SummaryWorksAsLoaded /\ ~products_cache.loaded
            /\ last_op' = "summary")
        => summary'.status = 200]_vars

\* the order in which lifespan initializes and registers the services
LifespanOrder == <<"vector_store", "genai", "cv_classifier", "analytics">>

\* C29: the services are initialized in the order vector store, generative AI,
\* computer vision, analytics, and a service is in the services map only after
\* its initialize() completed: every registered service has initialized = True;
\* if an initializer raises, startup aborts and no request is handled.
C29_StartupOrder ==
    /\ \A n \in services : initialized[n]
    /\ \A i \in DOMAIN LifespanOrder :
          initialized[LifespanOrder[i]] =>
              \A j \in 1 .. i - 1 : LifespanOrder[j] \in services
    /\ \A i \in DOMAIN LifespanOrder :
          (LifespanOrder[i] \in services /\ i < Len(LifespanOrder)) =>
              startup \notin {LifespanOrder[j] : j \in 1 .. i}
    /\ startup # "serving" => last_op = "none"
    /\ startup = "aborted" =>
          \E n \in ServiceNames : n \notin services /\ ~initialized[n]

\* analytics.initialize() raised after the three other services were registered
C29_Witness ==
    /\ startup = "aborted"
    /\ services = {"vector_store", "genai", "cv_classifier"}
    /\ \A n \in services : initialized[n]
    /\ ~initialized["analytics"]
    /\ products_cache.loaded

\* descriptions are generated for this request
Described == include_description /\ "genai" \in services /\ initialized["genai"]

\* C30: with include_description set and the generative-AI service initialized
\* the response has one description per returned product, in product order; a
\* description that fails to generate is an empty string at its position and
\* neither fails the request nor changes the products, the totals or the other
\* descriptions. Otherwise descriptions is empty.
C30_Descriptions ==
    /\ (last_op = "recommend" /\ response.status = 200) =>
          /\ response = search(faiss_metadata, request.query, request.page, request.size)
          /\ IF Described
             THEN /\ Len(descriptions) = Len(response.products)
                  /\ \A i \in DOMAIN descriptions :
                        descriptions[i] =
                            IF response.products[i].uniq_id \in faults.genai_failing
                            THEN EmptyDescription
                            ELSE generate_description(response.products[i])
             ELSE descriptions = <<>>
    /\ (last_op = "recommend" /\ ~InvalidRequest(request) /\ StartupCompleted
            /\ ~faults.search_raises)
          => response.status = 200

\* the second of two descriptions failed
C30_Witness ==
    /\ last_op = "recommend"
    /\ response.status = 200
    /\ Described
    /\ Len(response.products) = 2
    /\ faults.genai_failing = {response.products[2].uniq_id}
    /\ descriptions = <<generate_description(response.products[1]), EmptyDescription>>

=============================================================================
